---- MODULE Spec2Model ----
(***************************************************************************)
(* Model of the image service: the transform engine                        *)
(* (mylib/image_classificator.py), its HTTP surface (api/api.py) and its   *)
(* command line surface (cli/cli.py).                                      *)
(*                                                                         *)
(* Every request (an HTTP request, a CLI invocation, a direct call of an   *)
(* engine function) is independent of the others: the program keeps no     *)
(* state between them.  The model therefore handles one request at a time: *)
(* from phase "idle" one action runs one whole handler on inputs drawn     *)
(* from small sets and records what the caller can observe; NextRequest    *)
(* returns to "idle".                                                      *)
(***************************************************************************)
EXTENDS Integers, Sequences, FiniteSets, TLC

(***************************************************************************)
(* Bounds of the model.                                                    *)
(***************************************************************************)
\* largest width and height of a source image
MaxDim == 2
\* largest width, height requested of resize
MaxTarget == 2

(***************************************************************************)
(* Encoded images.  The bytes of an upload or of a file are modelled by    *)
(* what the codec (Pillow) finds in them: the container format, the colour *)
(* mode and size of the image, and whether the pixel data is complete.     *)
(* Bytes that are no image at all have fmt = "none".                       *)
(***************************************************************************)
JpegSourceModes == {"L", "RGB", "CMYK"}

PngSourceModes == {"1", "P", "RGB", "RGBA"}

SrcDims == 1..MaxDim

Garbage == [fmt |-> "none", mode |-> "none", w |-> 0, h |-> 0, intact |-> FALSE]

JpegImages == [fmt : {"JPEG"}, mode : JpegSourceModes, w : SrcDims, h : SrcDims, intact : BOOLEAN]

PngImages == [fmt : {"PNG"}, mode : PngSourceModes, w : SrcDims, h : SrcDims, intact : BOOLEAN]

\* every content an input buffer may have
Contents == {Garbage} \cup JpegImages \cup PngImages

\* a JPEG or PNG the codec decodes completely
Decodable(c) == c.fmt \in {"JPEG", "PNG"} /\ c.intact

\* io.BytesIO(data): a buffer positioned at its start
BytesIO(c) == [data |-> c, pos |-> "start"]

\* no bytes at all
Empty == [fmt |-> "empty", mode |-> "none", w |-> 0, h |-> 0, intact |-> FALSE]

NoBuffer == [data |-> Empty, pos |-> "none"]

(***************************************************************************)
(* Outcome of a call: a returned value or a raised exception.              *)
(***************************************************************************)
Return(v) == [kind |-> "return", val |-> v, label |-> "", exc |-> "none", msg |-> ""]

ReturnLabel(l) == [kind |-> "return", val |-> NoBuffer, label |-> l, exc |-> "none", msg |-> ""]

Raise(e, m) == [kind |-> "raise", val |-> NoBuffer, label |-> "", exc |-> e, msg |-> m]

\* no call was made
NotCalled == [kind |-> "none", val |-> NoBuffer, label |-> "", exc |-> "none", msg |-> ""]

\* the exception classes that derive from Exception
ExceptionClasses == {"ValueError", "OSError", "UnidentifiedImageError",
                     "FileNotFoundError", "IsADirectoryError", "PermissionError"}

(***************************************************************************)
(* The codec primitives the engine calls.                                  *)
(***************************************************************************)
\* Image.open: identifies the image from its header; fails on bytes that
\* are no image
ImageOpen(buf) ==
    IF buf.data.fmt \notin {"JPEG", "PNG"}
    THEN Raise("UnidentifiedImageError", "cannot identify image file")
    ELSE Return(buf.data)

\* loading the pixel data, which every transform does first
Load(img) ==
    IF img.intact THEN Return(img)
    ELSE Raise("OSError", "image file is truncated")

\* a resize that takes any size as it is given
ImgResizeUnchecked(img, width, height) ==
    IF Load(img).kind = "raise" THEN Load(img)
    ELSE Return([img EXCEPT !.w = width, !.h = height])

\* Image.resize((width, height))
ImgResize(img, width, height) ==
    IF Load(img).kind = "raise" THEN Load(img)
    ELSE IF width < 1 \/ height < 1
    THEN Raise("ValueError", "height and width must be > 0")
    ELSE Return([img EXCEPT !.w = width, !.h = height])

\* a conversion that loads the image and leaves its mode as it is
ImgConvertKeepsMode(img) == Load(img)

\* Image.convert("L")
ImgConvertL(img) ==
    IF Load(img).kind = "raise" THEN Load(img)
    ELSE Return([img EXCEPT !.mode = "L"])

\* Image.rotate(degrees, expand=True) for multiples of a right angle
ImgRotate(img, degrees) ==
    LET angle == degrees % 360 IN
    IF Load(img).kind = "raise" THEN Load(img)
    ELSE IF angle \in {90, 270}
    THEN Return([img EXCEPT !.w = img.h, !.h = img.w])
    ELSE Return(img)

\* the modes the JPEG encoder writes
JpegWritableModes == {"1", "L", "RGB", "RGBX", "CMYK", "YCbCr"}

\* the mode a written JPEG decodes to
JpegStoredMode(mode) == IF mode = "1" THEN "L" ELSE mode

\* Image.save(img_bytes, format="JPEG") into a fresh buffer: the buffer is
\* left positioned after the written data
ImgSaveJpeg(img) ==
    IF img.mode \notin JpegWritableModes
    THEN Raise("OSError", "cannot write mode " \o img.mode \o " as JPEG")
    ELSE Return([data |-> [fmt |-> "JPEG", mode |-> JpegStoredMode(img.mode),
                           w |-> img.w, h |-> img.h, intact |-> TRUE],
                 pos |-> "end"])

\* img_bytes.seek(0)
Seek0(buf) == [buf EXCEPT !.pos = "start"]

\* buffer.read(): the data from the current position on
ReadAll(buf) == IF buf.pos = "start" THEN buf.data ELSE Empty

(***************************************************************************)
(* The transform engine.                                                   *)
(***************************************************************************)
IMAGE_CLASSES == <<"person", "airplane", "ball", "house", "truck">>

\* an except clause that catches ValueError alone
ReraiseValueErrorOnly(body, prefix) ==
    IF body.kind = "raise" /\ body.exc = "ValueError"
    THEN Raise("ValueError", prefix \o body.msg)
    ELSE body

\* try: body  except Exception as e: raise ValueError(prefix + str(e))
Reraise(body, prefix) ==
    IF body.kind = "raise" /\ body.exc \in ExceptionClasses
    THEN Raise("ValueError", prefix \o body.msg)
    ELSE body

\* open, transform, save as JPEG, seek(0), return
Pipeline(opened, transformed) ==
    LET saved == IF transformed.kind = "raise" THEN transformed
                 ELSE ImgSaveJpeg(transformed.val)
    IN  IF opened.kind = "raise" THEN opened
        ELSE IF saved.kind = "raise" THEN saved
        ELSE Return(Seek0(saved.val))

resize_image(image_file, width, height) ==
    LET img == ImageOpen(image_file)
        resized_img == IF img.kind = "raise" THEN img
                       ELSE ImgResize(img.val, width, height)
    IN  Reraise(Pipeline(img, resized_img), "Error during image processing: ")

convert_to_grayscale(image_file) ==
    LET img == ImageOpen(image_file)
        grayscale_img == IF img.kind = "raise" THEN img ELSE ImgConvertL(img.val)
    IN  Reraise(Pipeline(img, grayscale_img), "Error during grayscale conversion: ")

rotate_image(image_file, degrees) ==
    LET img == ImageOpen(image_file)
        rotated_img == IF img.kind = "raise" THEN img ELSE ImgRotate(img.val, degrees)
    IN  Reraise(Pipeline(img, rotated_img), "Error during image rotation: ")

\* a classifier that decodes its buffer before choosing
PredictAfterDecoding(image_file) ==
    IF ImageOpen(image_file).kind = "raise" THEN {ImageOpen(image_file)}
    ELSE {ReturnLabel(IMAGE_CLASSES[i]) : i \in 1..Len(IMAGE_CLASSES)}

\* random.choice(IMAGE_CLASSES): the outcomes a call may have; the buffer is
\* not used
predict_image_class(image_file) ==
    {ReturnLabel(IMAGE_CLASSES[i]) : i \in 1..Len(IMAGE_CLASSES)}

(***************************************************************************)
(* Inputs.                                                                 *)
(***************************************************************************)
\* widths and heights a caller may ask of resize
Targets == (-1)..MaxTarget

\* rotation angles a caller may ask for
Angles == {-90, 0, 90, 180, 270, 360, 450}

(***************************************************************************)
(* State.                                                                  *)
(***************************************************************************)
VARIABLES
    phase,  \* "idle": awaiting a request; "done": a request was handled
    req,    \* the request handled: surface, operation and inputs
    steps,  \* the steps the handler took, in order
    eng,    \* outcome of the engine call the request made, or NotCalled
    resp,   \* the HTTP response
    term    \* what a CLI invocation left: output lines, exit, output file

vars == <<phase, req, steps, eng, resp, term>>

NoField == [given |-> "absent", n |-> 0]

NoReq == [surface |-> "none", op |-> "none", ctype |-> "", content |-> Empty,
          width |-> NoField, height |-> NoField, degrees |-> NoField,
          path |-> "", pathKind |-> "none", outPath |-> "", outKind |-> "none"]

NoResp == [status |-> 0, detail |-> "", loc |-> {}, media |-> "", body |-> Empty,
           label |-> ""]

NoTerm == [stdout |-> <<>>, stderr |-> <<>>, exit |-> 0, escaped |-> "none",
           outfile |-> [written |-> FALSE, data |-> Empty]]

Init ==
    /\ phase = "idle"
    /\ req = NoReq
    /\ steps = <<>>
    /\ eng = NotCalled
    /\ resp = NoResp
    /\ term = NoTerm

\* an integer argument or form value
IntField(n) == [given |-> "int", n |-> n]

(***************************************************************************)
(* Direct calls of the engine functions (as the unit tests make them).     *)
(***************************************************************************)
LibReq(op, c) == [NoReq EXCEPT !.surface = "lib", !.op = op, !.content = c]

CallResize ==
    /\ phase = "idle"
    /\ \E c \in Contents, width \in Targets, height \in Targets :
        /\ req' = [LibReq("resize_image", c) EXCEPT !.width = IntField(width),
                                                    !.height = IntField(height)]
        /\ eng' = resize_image(BytesIO(c), width, height)
    /\ steps' = <<"resize_image">>
    /\ phase' = "done"
    /\ UNCHANGED <<resp, term>>

CallGrayscale ==
    /\ phase = "idle"
    /\ \E c \in Contents :
        /\ req' = LibReq("convert_to_grayscale", c)
        /\ eng' = convert_to_grayscale(BytesIO(c))
    /\ steps' = <<"convert_to_grayscale">>
    /\ phase' = "done"
    /\ UNCHANGED <<resp, term>>

CallRotate ==
    /\ phase = "idle"
    /\ \E c \in Contents, degrees \in Angles :
        /\ req' = [LibReq("rotate_image", c) EXCEPT !.degrees = IntField(degrees)]
        /\ eng' = rotate_image(BytesIO(c), degrees)
    /\ steps' = <<"rotate_image">>
    /\ phase' = "done"
    /\ UNCHANGED <<resp, term>>

CallPredict ==
    /\ phase = "idle"
    /\ \E c \in Contents :
        /\ req' = LibReq("predict_image_class", c)
        /\ eng' \in predict_image_class(BytesIO(c))
    /\ steps' = <<"predict_image_class">>
    /\ phase' = "done"
    /\ UNCHANGED <<resp, term>>

(***************************************************************************)
(* The HTTP surface.                                                       *)
(***************************************************************************)
\* declared content types of an upload
ContentTypes == {"image/jpeg", "image/png", "IMAGE/JPEG", "image/jpeg; charset=binary",
                 "text/plain", "image/gif"}

\* what a form field of the request may hold
FormValues(ints) == {NoField, [given |-> "nonint", n |-> 0]} \cup {IntField(n) : n \in ints}

\* a handler's result: the steps it took, the engine outcome, the response
Handled(s, e, r) == [steps |-> s, eng |-> e, resp |-> r]

HTTPException(status_code, detail) ==
    [NoResp EXCEPT !.status = status_code, !.detail = detail]

\* a check under which an absent field takes a default
FormErrorsWithDefaults(fields) == {name \in DOMAIN fields : fields[name].given = "nonint"}

\* the framework's check of the parameters declared Form(...) with type int,
\* made before the endpoint function is called: the names of the fields that
\* are absent or hold no integer
FormErrors(fields) == {name \in DOMAIN fields : fields[name].given # "int"}

\* the framework's answer when a declared parameter fails its check
ValidationError(names) == [NoResp EXCEPT !.status = 422, !.loc = names]

\* a request to an endpoint: its parameters are checked, then the endpoint
\* function runs
Endpoint(fields, handled) ==
    IF FormErrors(fields) # {}
    THEN Handled(<<"form_validation">>, NotCalled, ValidationError(FormErrors(fields)))
    ELSE [handled EXCEPT !.steps = <<"form_validation">> \o handled.steps]

\* a check that looks at the media type alone: a parameter after it passes
ValidateMediaTypeOnly(content_type) ==
    IF \A t \in {"image/jpeg", "image/png"} :
           Len(content_type) < Len(t) \/ SubSeq(content_type, 1, Len(t)) # t
    THEN Raise("HTTPException", "Invalid image format. Only JPEG/PNG allowed.")
    ELSE Return(NoBuffer)

_validate_image_type(content_type) ==
    IF content_type \notin {"image/jpeg", "image/png"}
    THEN Raise("HTTPException", "Invalid image format. Only JPEG/PNG allowed.")
    ELSE Return(NoBuffer)

\* an endpoint without the except ValueError clause
TransformResponseNoValueError(out) ==
    IF out.kind = "return"
    THEN [NoResp EXCEPT !.status = 200, !.media = "image/jpeg", !.body = ReadAll(out.val)]
    ELSE HTTPException(500, out.msg)

\* return StreamingResponse(buffer, media_type="image/jpeg"), or the except
\* clauses of a transform endpoint
TransformResponse(out) ==
    IF out.kind = "return"
    THEN [NoResp EXCEPT !.status = 200, !.media = "image/jpeg", !.body = ReadAll(out.val)]
    ELSE IF out.exc = "ValueError"
    THEN HTTPException(400, out.msg)
    ELSE HTTPException(500, out.msg)

\* the body of a transform endpoint: validate the type, read the upload,
\* call the engine, answer
TransformEndpoint(content_type, fn, out) ==
    IF _validate_image_type(content_type).kind = "raise"
    THEN Handled(<<"_validate_image_type">>, NotCalled,
                 HTTPException(400, _validate_image_type(content_type).msg))
    ELSE Handled(<<"_validate_image_type", "read", fn>>, out, TransformResponse(out))

\* return {"filename": ..., "predicted_class": ...}, or the except clause
PredictResponse(out) ==
    IF out.kind = "return"
    THEN [NoResp EXCEPT !.status = 200, !.media = "application/json", !.label = out.label]
    ELSE HTTPException(500, out.msg)

api_predict(content_type, out) ==
    IF _validate_image_type(content_type).kind = "raise"
    THEN Handled(<<"_validate_image_type">>, NotCalled,
                 HTTPException(400, _validate_image_type(content_type).msg))
    ELSE Handled(<<"_validate_image_type", "read", "predict_image_class">>, out,
                 PredictResponse(out))

api_resize(content_type, content, width, height) ==
    TransformEndpoint(content_type, "resize_image",
                      resize_image(BytesIO(content), width, height))

api_grayscale(content_type, content) ==
    TransformEndpoint(content_type, "convert_to_grayscale",
                      convert_to_grayscale(BytesIO(content)))

api_rotate(content_type, content, degrees) ==
    TransformEndpoint(content_type, "rotate_image",
                      rotate_image(BytesIO(content), degrees))

ApiReq(op, ct, c) ==
    [NoReq EXCEPT !.surface = "api", !.op = op, !.ctype = ct, !.content = c]

\* the request was handled with result h
ApiDone(h) ==
    /\ steps' = h.steps
    /\ eng' = h.eng
    /\ resp' = h.resp
    /\ phase' = "done"
    /\ UNCHANGED term

PostPredict ==
    /\ phase = "idle"
    /\ \E ct \in ContentTypes, c \in Contents :
        /\ req' = ApiReq("/predict", ct, c)
        /\ \E out \in predict_image_class(BytesIO(c)) :
              ApiDone(Endpoint(<<>>, api_predict(ct, out)))

PostResize ==
    /\ phase = "idle"
    /\ \E ct \in ContentTypes, c \in Contents :
       \E width \in FormValues(Targets), height \in FormValues(Targets) :
        /\ req' = [ApiReq("/resize", ct, c) EXCEPT !.width = width, !.height = height]
        /\ ApiDone(Endpoint([width |-> width, height |-> height],
                            api_resize(ct, c, width.n, height.n)))

PostGrayscale ==
    /\ phase = "idle"
    /\ \E ct \in ContentTypes, c \in Contents :
        /\ req' = ApiReq("/grayscale", ct, c)
        /\ ApiDone(Endpoint(<<>>, api_grayscale(ct, c)))

PostRotate ==
    /\ phase = "idle"
    /\ \E ct \in ContentTypes, c \in Contents, degrees \in FormValues(Angles) :
        /\ req' = [ApiReq("/rotate", ct, c) EXCEPT !.degrees = degrees]
        /\ ApiDone(Endpoint([degrees |-> degrees], api_rotate(ct, c, degrees.n)))

(***************************************************************************)
(* The command line surface.                                               *)
(***************************************************************************)
Uppercase == "ABCDEFGHIJKLMNOPQRSTUVWXYZ"

Lowercase == "abcdefghijklmnopqrstuvwxyz"

\* the 1-based index of the last occurrence of the character ch in the first
\* n characters of s, 0 when there is none
RECURSIVE RFind(_, _, _)
RFind(s, ch, n) ==
    IF n = 0 THEN 0
    ELSE IF SubSeq(s, n, n) = ch THEN n
    ELSE RFind(s, ch, n - 1)

\* str.lower() of one character
LowerChar(ch) ==
    IF RFind(Uppercase, ch, Len(Uppercase)) = 0 THEN ch
    ELSE SubSeq(Lowercase, RFind(Uppercase, ch, Len(Uppercase)),
                RFind(Uppercase, ch, Len(Uppercase)))

\* str.lower()
RECURSIVE Lower(_)
Lower(s) ==
    IF Len(s) = 0 THEN ""
    ELSE LowerChar(SubSeq(s, 1, 1)) \o Lower(SubSeq(s, 2, Len(s)))

\* Path.name: the last component of the path
PathName(path) == SubSeq(path, RFind(path, "/", Len(path)) + 1, Len(path))

\* Path.suffix: the last component from its last dot on, unless that dot is
\* its first or its last character
PathSuffix(path) ==
    LET name == PathName(path)
        i == RFind(name, ".", Len(name))
    IN  IF 1 < i /\ i < Len(name) THEN SubSeq(name, i, Len(name)) ELSE ""

\* a check that compares the suffix as it is written
ValidateImagePathCaseSensitive(image_path) ==
    IF PathSuffix(image_path) \notin {".jpg", ".jpeg", ".png"}
    THEN Raise("ValueError",
               "Invalid file extension. Only .jpg, .jpeg, or .png are allowed.")
    ELSE Return(NoBuffer)

_validate_image_path(image_path) ==
    IF Lower(PathSuffix(image_path)) \notin {".jpg", ".jpeg", ".png"}
    THEN Raise("ValueError",
               "Invalid file extension. Only .jpg, .jpeg, or .png are allowed.")
    ELSE Return(NoBuffer)

\* the input paths of the model
InputPaths == {"a.jpg", "a.JPG", "a.jpeg", "a.Png", "a.txt", "a.jpg.gif", ".png",
               "d.png/a"}

\* what is at the input path: a readable file, a directory, nothing, a file
\* that may not be read, or a file removed right after the framework saw it
InputKinds == {"file", "dir", "missing", "unreadable", "vanishing"}

\* what writing to the output path meets: a file that can be created or
\* overwritten, a missing parent directory, a refused permission, a directory
OutputKinds == {"writable", "noparent", "readonly", "dir"}

OutputPaths == {"out.jpg"}

DefaultWidth == 100

DefaultHeight == 100

\* what an integer option of the command line may hold: nothing (the default
\* applies) or an integer
OptionValues(ints) == {NoField} \cup {IntField(n) : n \in ints}

\* what a command leaves behind
Terminated(s, e, t) == [steps |-> s, eng |-> e, term |-> t]

\* the framework refuses the arguments before the command body runs
UsageError(message) ==
    Terminated(<<"parse_args">>, NotCalled,
               [NoTerm EXCEPT !.stderr = <<"Error: " \o message>>, !.exit = 2])

\* an argument declared click.Path(): a path that does not exist passes
InputPathErrorNoExists(path, kind) ==
    IF kind = "unreadable" THEN "Path '" \o path \o "' is not readable."
    ELSE ""

\* click.Path(exists=True): the path must exist and be readable
InputPathError(path, kind) ==
    IF kind = "missing" THEN "Path '" \o path \o "' does not exist."
    ELSE IF kind = "unreadable" THEN "Path '" \o path \o "' is not readable."
    ELSE ""

\* open(path, "rb") and f.read()
OpenRead(kind, content) ==
    IF kind = "file" THEN Return(BytesIO(content))
    ELSE IF kind = "dir" THEN Raise("IsADirectoryError", "Is a directory")
    ELSE IF kind = "unreadable" THEN Raise("PermissionError", "Permission denied")
    ELSE Raise("FileNotFoundError", "No such file or directory")

\* open(path, "wb")
OpenWrite(kind) ==
    IF kind = "writable" THEN Return(NoBuffer)
    ELSE IF kind = "dir" THEN Raise("IsADirectoryError", "Is a directory")
    ELSE IF kind = "readonly" THEN Raise("PermissionError", "Permission denied")
    ELSE Raise("FileNotFoundError", "No such file or directory")

\* except (ValueError, FileNotFoundError) as e: click.echo(f"ERROR: {e}", err=True);
\* any other exception leaves the command
CommandFailed(s, e, raised, outfile) ==
    IF raised.exc \in {"ValueError", "FileNotFoundError"}
    THEN Terminated(s, e, [NoTerm EXCEPT !.stderr = <<"ERROR: " \o raised.msg>>,
                                         !.outfile = outfile])
    ELSE Terminated(s, e, [NoTerm EXCEPT !.escaped = raised.exc, !.exit = 1,
                                         !.outfile = outfile])

Untouched == [written |-> FALSE, data |-> Empty]

cli_predict_body(image_path, kind, content, out) ==
    LET opened == OpenRead(kind, content) IN
    IF _validate_image_path(image_path).kind = "raise"
    THEN CommandFailed(<<"parse_args", "_validate_image_path">>, NotCalled,
                       _validate_image_path(image_path), Untouched)
    ELSE IF opened.kind = "raise"
    THEN CommandFailed(<<"parse_args", "_validate_image_path", "open_input">>, NotCalled,
                       opened, Untouched)
    ELSE Terminated(<<"parse_args", "_validate_image_path", "open_input",
                      "predict_image_class">>, out,
                    [NoTerm EXCEPT !.stdout =
                        <<"The class predicted for " \o PathName(image_path)
                          \o " is: " \o out.label>>])

cli_predict(image_path, kind, content, out) ==
    IF InputPathError(image_path, kind) # ""
    THEN UsageError(InputPathError(image_path, kind))
    ELSE cli_predict_body(image_path, kind, content, out)

cli_resize_body(input_path, kind, content, output_path, outKind, width, height) ==
    LET opened == OpenRead(kind, content)
        resized == resize_image(opened.val, width, height)
        s1 == <<"parse_args", "_validate_image_path">>
        s2 == s1 \o <<"open_input">>
        s3 == s2 \o <<"resize_image">>
        s4 == s3 \o <<"open_output">>
    IN
    IF _validate_image_path(input_path).kind = "raise"
    THEN CommandFailed(s1, NotCalled, _validate_image_path(input_path), Untouched)
    ELSE IF opened.kind = "raise"
    THEN CommandFailed(s2, NotCalled, opened, Untouched)
    ELSE IF resized.kind = "raise"
    THEN CommandFailed(s3, resized, resized, Untouched)
    ELSE IF OpenWrite(outKind).kind = "raise"
    THEN CommandFailed(s4, resized, OpenWrite(outKind), Untouched)
    ELSE Terminated(s4 \o <<"write_output">>, resized,
                    [NoTerm EXCEPT
                        !.outfile = [written |-> TRUE, data |-> ReadAll(resized.val)],
                        !.stdout = <<"Image resized from " \o PathName(input_path)
                                     \o " to " \o ToString(width) \o "x"
                                     \o ToString(height) \o " and saved to "
                                     \o PathName(output_path)>>])

cli_resize(input_path, kind, content, output_path, outKind, width, height) ==
    IF InputPathError(input_path, kind) # ""
    THEN UsageError(InputPathError(input_path, kind))
    ELSE cli_resize_body(input_path, kind, content, output_path, outKind,
                         IF width.given = "absent" THEN DefaultWidth ELSE width.n,
                         IF height.given = "absent" THEN DefaultHeight ELSE height.n)

\* the files an input path may name: only a regular file has content
InputFiles ==
    [kind : {"file"}, content : Contents]
        \cup [kind : InputKinds \ {"file"}, content : {Empty}]

CliReq(op, path, f) ==
    [NoReq EXCEPT !.surface = "cli", !.op = op, !.path = path, !.pathKind = f.kind,
                  !.content = f.content]

CliDone(t) ==
    /\ steps' = t.steps
    /\ eng' = t.eng
    /\ term' = t.term
    /\ phase' = "done"
    /\ UNCHANGED resp

CliPredict ==
    /\ phase = "idle"
    /\ \E path \in InputPaths, f \in InputFiles :
        /\ req' = CliReq("predict", path, f)
        /\ \E out \in predict_image_class(BytesIO(f.content)) :
              CliDone(cli_predict(path, f.kind, f.content, out))

CliResize ==
    /\ phase = "idle"
    /\ \E path \in InputPaths, f \in InputFiles, outPath \in OutputPaths,
          outKind \in OutputKinds :
       \E width \in OptionValues(Targets), height \in OptionValues(Targets) :
        /\ req' = [CliReq("resize", path, f) EXCEPT !.outPath = outPath,
                       !.outKind = outKind, !.width = width, !.height = height]
        /\ CliDone(cli_resize(path, f.kind, f.content, outPath, outKind, width, height))

\* the request is over; the next one starts from scratch
NextRequest ==
    /\ phase = "done"
    /\ phase' = "idle"
    /\ req' = NoReq
    /\ steps' = <<>>
    /\ eng' = NotCalled
    /\ resp' = NoResp
    /\ term' = NoTerm

Next ==
    \/ CallResize
    \/ CallGrayscale
    \/ CallRotate
    \/ CallPredict
    \/ PostPredict
    \/ PostResize
    \/ PostGrayscale
    \/ PostRotate
    \/ CliPredict
    \/ CliResize
    \/ NextRequest

Spec == Init /\ [][Next]_vars

(***************************************************************************)
(* Properties.                                                             *)
(***************************************************************************)
TransformFns == {"resize_image", "convert_to_grayscale", "rotate_image"}

\* the request called the engine function fn
Called(fn) == phase = "done" /\ \E i \in DOMAIN steps : steps[i] = fn

UnsupportedDetail == "Invalid image format. Only JPEG/PNG allowed."

UnsupportedLine == "ERROR: Invalid file extension. Only .jpg, .jpeg, or .png are allowed."

\* the form fields the endpoint of the request declares
RequiredFields ==
    IF req.op = "/resize" THEN {"width", "height"}
    ELSE IF req.op = "/rotate" THEN {"degrees"}
    ELSE {}

\* the required form fields of the request that are absent or no integer
BadFields == {name \in RequiredFields : req[name].given # "int"}

\* an HTTP request whose upload declares a type other than the two accepted
UnsupportedUpload ==
    /\ phase = "done"
    /\ req.surface = "api"
    /\ req.ctype # "image/jpeg"
    /\ req.ctype # "image/png"

\* the upload was neither read nor handed to the engine
NothingProcessed ==
    /\ eng = NotCalled
    /\ \A i \in DOMAIN steps : steps[i] \notin {"read", "predict_image_class"} \cup TransformFns

\* C1 as stated: on every endpoint an upload of an unsupported declared type
\* is answered 400 with the unsupported-format detail, nothing being read or
\* processed
C1_UnsupportedTypeAlways400 ==
    UnsupportedUpload =>
        /\ resp.status = 400
        /\ resp.detail = UnsupportedDetail
        /\ NothingProcessed

\* C1 amended: an upload of an unsupported declared type is never read nor
\* processed; it is answered 400 with the unsupported-format detail when the
\* endpoint's required form fields are all present integers, and 422 when
\* one of them is absent or no integer
C1_UnsupportedTypeRejected ==
    UnsupportedUpload =>
        /\ NothingProcessed
        /\ BadFields = {} => resp.status = 400 /\ resp.detail = UnsupportedDetail
        /\ BadFields # {} => resp.status = 422

C1_Witness ==
    /\ UnsupportedUpload
    /\ req.op = "/rotate"
    /\ req.ctype = "IMAGE/JPEG"
    /\ req.content = Garbage
    /\ resp.status = 400
    /\ resp.detail = UnsupportedDetail

\* C2: a failing resize_image, convert_to_grayscale or rotate_image raises
\* ValueError with a message and returns no buffer, and input bytes the codec
\* cannot decode always make the call fail
C2_FailuresAreProcessingErrors ==
    (\E fn \in TransformFns : Called(fn)) =>
        /\ eng.kind \in {"return", "raise"}
        /\ eng.kind = "raise" =>
              /\ eng.exc = "ValueError"
              /\ Len(eng.msg) > 0
              /\ eng.val = NoBuffer
        /\ ~Decodable(req.content) => eng.kind = "raise"

C2_Witness ==
    /\ Called("rotate_image")
    /\ req.content.fmt = "PNG"
    /\ ~req.content.intact
    /\ eng.exc = "ValueError"
    /\ eng.msg = "Error during image rotation: image file is truncated"

\* the width and height the request asks of resize
AskedWidth == IF req.width.given = "int" THEN req.width.n ELSE DefaultWidth

AskedHeight == IF req.height.given = "int" THEN req.height.n ELSE DefaultHeight

\* the engine returned a complete JPEG, positioned at its start
ReturnedJpeg ==
    /\ eng.kind = "return"
    /\ eng.val.pos = "start"
    /\ eng.val.data.fmt = "JPEG"
    /\ eng.val.data.intact

\* C3: resize of a decodable JPEG or PNG to a positive width and height
\* returns a JPEG at offset 0 of exactly that width and height
C3_ResizeYieldsExactSize ==
    (Called("resize_image") /\ Decodable(req.content)
         /\ AskedWidth >= 1 /\ AskedHeight >= 1) =>
        /\ ReturnedJpeg
        /\ eng.val.data.w = AskedWidth
        /\ eng.val.data.h = AskedHeight

\* C4: rotate of a decodable JPEG or PNG by 0, 90, 180, 270 or 360 degrees
\* returns an image; by 90 and 270 its width and height are the source's
\* height and width, otherwise the source's width and height
C4_RotateRightAngles ==
    (Called("rotate_image") /\ Decodable(req.content)
         /\ req.degrees.n \in {0, 90, 180, 270, 360}) =>
        /\ ReturnedJpeg
        /\ req.degrees.n \in {90, 270} =>
              /\ eng.val.data.w = req.content.h
              /\ eng.val.data.h = req.content.w
        /\ req.degrees.n \in {0, 180, 360} =>
              /\ eng.val.data.w = req.content.w
              /\ eng.val.data.h = req.content.h

\* C5: convert_to_grayscale of a decodable JPEG or PNG of any colour mode
\* returns a JPEG of mode L with the source's width and height
C5_GrayscaleYieldsL ==
    (Called("convert_to_grayscale") /\ Decodable(req.content)) =>
        /\ ReturnedJpeg
        /\ eng.val.data.mode = "L"
        /\ eng.val.data.w = req.content.w
        /\ eng.val.data.h = req.content.h

C5_Witness ==
    /\ Called("convert_to_grayscale")
    /\ req.content.fmt = "PNG"
    /\ req.content.mode = "RGBA"
    /\ req.content.intact
    /\ req.content.w # req.content.h
    /\ ReturnedJpeg
    /\ eng.val.data.mode = "L"

Labels == {"person", "airplane", "ball", "house", "truck"}

\* C6: predict returns one of the five labels whatever the buffer holds, and
\* POST /predict with an accepted content type answers 200 with such a label
C6_PredictAlwaysLabels ==
    /\ Called("predict_image_class") =>
          eng.kind = "return" /\ eng.label \in Labels
    /\ (phase = "done" /\ req.op = "/predict"
           /\ req.ctype \in {"image/jpeg", "image/png"}) =>
          resp.status = 200 /\ resp.label \in Labels

C6_Witness ==
    /\ phase = "done"
    /\ req.op = "/predict"
    /\ req.ctype = "image/png"
    /\ req.content = Garbage
    /\ resp.status = 200
    /\ resp.label = "truck"

\* C7: POST /resize without an integer width or height and POST /rotate
\* without an integer degrees are answered 422 naming the field, and the
\* engine is not called
C7_MissingFieldIs422 ==
    (phase = "done" /\ req.surface = "api" /\ BadFields # {}) =>
        /\ resp.status = 422
        /\ BadFields \subseteq resp.loc
        /\ NothingProcessed

C7_Witness ==
    /\ phase = "done"
    /\ req.op = "/resize"
    /\ req.ctype = "image/jpeg"
    /\ Decodable(req.content)
    /\ req.width = IntField(2)
    /\ req.height.given = "absent"
    /\ resp.status = 422
    /\ resp.loc = {"height"}

\* C8: a failure of the engine is reported as 400 with the engine's message,
\* which is not the unsupported-format detail, and on the command line as an
\* ERROR: line that is not the unsupported-extension line; the
\* unsupported-format reports are made for unsupported types and extensions
\* alone
C8_ErrorKindsDistinct ==
    /\ (phase = "done" /\ req.surface = "api" /\ eng.kind = "raise") =>
          /\ resp.status = 400
          /\ resp.detail = eng.msg
          /\ resp.detail # UnsupportedDetail
    /\ (phase = "done" /\ req.surface = "api" /\ resp.detail = UnsupportedDetail) =>
          /\ req.ctype \notin {"image/jpeg", "image/png"}
          /\ eng = NotCalled
    /\ (phase = "done" /\ req.surface = "cli" /\ eng.kind = "raise") =>
          /\ term.stderr = <<"ERROR: " \o eng.msg>>
          /\ term.stderr # <<UnsupportedLine>>
    /\ (phase = "done" /\ req.surface = "cli" /\ term.stderr = <<UnsupportedLine>>) =>
          /\ req.path \in {"a.txt", "a.jpg.gif", ".png", "d.png/a"}
          /\ eng = NotCalled

C8_Witness ==
    /\ phase = "done"
    /\ req.op = "/grayscale"
    /\ req.ctype = "image/jpeg"
    /\ req.content = Garbage
    /\ resp.status = 400
    /\ resp.detail = "Error during grayscale conversion: cannot identify image file"

\* the command body ran: the framework accepted the arguments
BodyRan == phase = "done" /\ req.surface = "cli" /\ Len(steps) > 1

\* C9: an existing input path whose extension is not .jpg, .jpeg or .png in
\* any case is refused with the unsupported-extension line before the file
\* is opened, the engine called or the output written; .JPG and .Png pass
C9_ExtensionCheckedFirst ==
    /\ (BodyRan /\ req.path \in {"a.txt", "a.jpg.gif", ".png", "d.png/a"}) =>
          /\ term.stderr = <<UnsupportedLine>>
          /\ steps = <<"parse_args", "_validate_image_path">>
          /\ eng = NotCalled
          /\ ~term.outfile.written
          /\ term.stdout = <<>>
    /\ (BodyRan /\ req.path \in {"a.jpg", "a.JPG", "a.jpeg", "a.Png"}) =>
          /\ term.stderr # <<UnsupportedLine>>
          /\ Len(steps) > 2
          /\ steps[3] = "open_input"

C9_Witness ==
    /\ BodyRan
    /\ req.op = "resize"
    /\ req.path = "a.JPG"
    /\ req.pathKind = "file"
    /\ req.outKind = "writable"
    /\ term.outfile.written
    /\ term.outfile.data.fmt = "JPEG"

\* the command body ended without its last step
BodyFailed ==
    /\ BodyRan
    /\ steps[Len(steps)] \notin {"predict_image_class", "write_output"}

\* C10: when the body of predict or resize fails, an ERROR: line is printed
\* on the error stream, no success line is printed and no exception leaves
\* the command
C10_CliFailuresReported ==
    BodyFailed =>
        /\ Len(term.stderr) = 1
        /\ Len(term.stderr[1]) >= 7
        /\ SubSeq(term.stderr[1], 1, 7) = "ERROR: "
        /\ term.stdout = <<>>
        /\ term.escaped = "none"

\* a command line invocation whose input path does not exist
MissingInput == phase = "done" /\ req.surface = "cli" /\ req.pathKind = "missing"

NonPositiveResize ==
    /\ phase = "done"
    /\ req.op \in {"resize_image", "/resize", "resize"}
    /\ \/ req.width.given = "int" /\ req.width.n < 1
       \/ req.height.given = "int" /\ req.height.n < 1

\* C12: a resize request with a width or height of zero or less never
\* succeeds: it yields no 200 response, no returned buffer, no written
\* output file and no confirmation line; when it reaches resize_image the
\* call raises ValueError, which POST /resize answers with 400 and the
\* engine's message and the command line reports as an ERROR: line
C12_NonPositiveSizeFails ==
    NonPositiveResize =>
        /\ eng.kind # "return"
        /\ resp.status # 200
        /\ resp.body = Empty
        /\ ~term.outfile.written
        /\ term.stdout = <<>>
        /\ Called("resize_image") =>
              /\ eng.kind = "raise"
              /\ eng.exc = "ValueError"
              /\ req.surface = "api" => resp.status = 400 /\ resp.detail = eng.msg
              /\ req.surface = "cli" => term.stderr = <<"ERROR: " \o eng.msg>>

C12_Witness ==
    /\ NonPositiveResize
    /\ req.op = "/resize"
    /\ req.ctype = "image/jpeg"
    /\ req.content = [fmt |-> "JPEG", mode |-> "RGB", w |-> 1, h |-> 2, intact |-> TRUE]
    /\ req.width = IntField(0)
    /\ req.height = IntField(2)
    /\ resp.status = 400
    /\ resp.detail = "Error during image processing: height and width must be > 0"

====
